---- MODULE Spec2Model ----
(***************************************************************************)
(* Model of package resumetls (src/resumetls.go): a crypto/tls connection  *)
(* whose handshake inputs (bytes read from the transport, bytes drawn from *)
(* cfg.Rand) are captured into a State, and replayed from a State into a   *)
(* second handshake run whose sequence counters are then overwritten.      *)
(*                                                                         *)
(* One tls.Config (cfg) is shared by every session, as a Go server shares  *)
(* it between connections.  Calls are made one after the other from the    *)
(* caller's thread; every action is one whole call.                        *)
(***************************************************************************)
EXTENDS Integers, Sequences, FiniteSets, TLC

\* ------------------------------------------------------------------ bounds
\* Bytes of the peer's first flight (the hello record) in the engine's handshake.
HelloLen == 2
\* Bytes of entropy one handshake draws from cfg.Rand.
RandLen == 1
\* Application records exchanged after handshakes, over all sessions.
MaxApp == 1

\* The sessions the caller constructs (calls of Server/Client): enough for two
\* capture sessions that share cfg and a resumption, or for a capture and two
\* resumptions.
Sess == {1, 2, 3}
\* The peer's last flight (the Finished record) is one byte, a check value.
HsLen == HelloLen + 1
\* Transport bytes.
TByte == {1, 2}

Min(a, b) == IF a < b THEN a ELSE b

RECURSIVE Sum(_)
Sum(q) == IF q = <<>> THEN 0 ELSE Head(q) + Sum(Tail(q))

Take(q, n) == SubSeq(q, 1, Min(n, Len(q)))
Drop(q, n) == SubSeq(q, Min(n, Len(q)) + 1, Len(q))

Const(n, x) == [i \in 1 .. n |-> x]

\* ------------------------------------------------------------------- State
\* type State struct { conn, rand []byte; inSeq, outSeq [8]byte }.  The two
\* counters are 8-byte arrays that are only ever copied whole; the model holds
\* the number they spell.
MkState(conn, rand, in, out) ==
    [conn |-> conn, rand |-> rand, inSeq |-> in, outSeq |-> out]

ZeroState == MkState(<<>>, <<>>, 0, 0)

\* ------------------------------------------------------------------ engine
\* crypto/tls as the package uses it: tls.Server(ovConn, cfg) and
\* (*tls.Conn).Handshake.  tls.Conn keeps cfg by reference and asks cfg.Rand for
\* entropy when it needs it; it reads and writes through the net.Conn it was
\* given; a failed handshake is kept (handshakeErr) and returned by every later
\* Handshake call without any I/O.
NewEngine ==
    [done |-> FALSE, err |-> FALSE, inSeq |-> 0, outSeq |-> 0,
     tr |-> <<>>, ent |-> <<>>]

\* The check value the peer's Finished must carry: it depends on the hello bytes
\* and on the entropy the engine drew.
Mac(hello, ent) == ((Sum(hello) + Sum(ent)) % 2) + 1

\* The key material a completed handshake derived: a function of the transport
\* bytes and the entropy the engine consumed.
KeyOf(e) == <<e.tr, e.ent>>

\* ----------------------------------------------------------------- session
\* One slot per constructor call: the Conn, the two Override wrappers built for
\* it (which stay reachable from cfg.Rand and from the engine whatever becomes of
\* the Conn) and the tls.Conn.
\*   kind        "none" (not constructed), "capture", "resume", or "failed" (a
\*               clientResume that returned nil and an error)
\*   handshaked, connBuffer, randBuffer, hasOv (overrideRand and overrideConn
\*               are not nil): the fields of Conn; the buffers by their contents
\*   att         the buffers the Tee readers write to are the ones the Conn's
\*               fields point to
\*   rMode, rnd, rPre   ovRand: OverrideReader (nil, a TeeReader, a MultiReader),
\*               Reader (0: rand.Reader, t: session t's ovRand), and what is
\*               left unread of bytes.NewBuffer(state.rand)
\*   cMode, cPre, wMode  ovConn: OverrideReader, unread rest of state.conn,
\*               OverrideWriter (nil or ioutil.Discard)
\*   eng         the tls.Conn
\*   st          the State the session was resumed from
\* and, for the properties only: stFrom, stAt, cut (where st came from), base
\* (the engine's counters when the handshake or the resume returned), appIn,
\* appOut (application records since), liveOut (records that reached the
\* transport), hsRet (where the last Handshake call returned: "early" at the
\* handshaked test, "err" with the engine's error, "ok" at the end, "panic"),
\* rehs (calls of the engine's Handshake made on a Conn already marked
\* handshaked), run (what the engine was given during the resuming constructor).

\* The engine's inputs during a resuming run: where each transport byte and
\* each entropy byte it was given came from, in order; the bytes among them that
\* came from the recorded transcript and from the recorded entropy, in order;
\* and whether a Read reached the live transport.
NoRun ==
    [rdTag |-> <<>>, rdPre |-> <<>>, rnTag |-> <<>>, rnPre |-> <<>>,
     liveRd |-> FALSE]

NoSess ==
    [kind |-> "none", handshaked |-> FALSE, hasOv |-> FALSE,
     connBuffer |-> <<>>, randBuffer |-> <<>>, att |-> FALSE,
     rMode |-> "nil", rnd |-> 0, rPre |-> <<>>,
     cMode |-> "nil", cPre |-> <<>>, wMode |-> "nil",
     eng |-> NewEngine, st |-> ZeroState,
     stFrom |-> 0, stAt |-> FALSE, cut |-> 0,
     base |-> <<0, 0>>, appIn |-> 0, appOut |-> 0, liveOut |-> 0,
     hsRet |-> "none", rehs |-> 0, run |-> NoRun]

\* ------------------------------------------------------------- the readers
\* OverrideConn.Read, one call asking for k bytes: the OverrideReader when it is
\* set, else the embedded net.Conn.
\*   io.MultiReader(bytes.NewBuffer(state.conn), conn): from the buffer while it
\*   holds bytes (a short read when it holds fewer than k), then from conn;
\*   io.TeeReader(conn, connBuf): from conn, and what was read is written to
\*   connBuf.
\* W is what the transport holds: the bytes the peer sent, after which a Read
\* finds the connection ended ("eof").  A Read on a transport that is silent and
\* open does not return: the model has no step for a call that never returns.
\* Yields the session heap, the wire, the bytes, where each came from
\* (1: the recorded prefix, 0: the live transport) and whether the call reached
\* the live transport.
ConnRead(S, s, k, W) ==
    LET c == S[s] IN
    IF c.cMode = "multi" /\ c.cPre # <<>>
    THEN LET n == Min(k, Len(c.cPre)) IN
         [S |-> [S EXCEPT ![s].cPre = Drop(c.cPre, n)], W |-> W, res |-> "ok",
          bytes |-> Take(c.cPre, n), tags |-> Const(n, 1), live |-> FALSE]
    ELSE IF W.wire = <<>>
    THEN [S |-> S, W |-> W, res |-> W.wend, bytes |-> <<>>, tags |-> <<>>,
          live |-> TRUE]
    ELSE LET n == Min(k, Len(W.wire))
             b == Take(W.wire, n) IN
         [S |-> IF c.cMode = "tee" /\ c.att
                THEN [S EXCEPT ![s].connBuffer = @ \o b] ELSE S,
          W |-> [W EXCEPT !.wire = Drop(W.wire, n)], res |-> "ok",
          bytes |-> b, tags |-> Const(n, 0), live |-> TRUE]

\* The engine reads one record of L bytes: Read calls of at most chunk bytes
\* until it has them, or a Read fails ("eof").
\* What the engine holds of a record after one more Read call yielded r.
Join(a, r) ==
    [S |-> r.S, W |-> r.W, res |-> r.res,
     bytes |-> a.bytes \o r.bytes, tags |-> a.tags \o r.tags,
     live |-> a.live \/ r.live]

RECURSIVE ReadRec(_, _, _, _)
ReadRec(a, s, L, chunk) ==
    IF Len(a.bytes) = L \/ a.res # "ok" THEN a
    ELSE ReadRec(Join(a, ConnRead(a.S, s, Min(chunk, L - Len(a.bytes)), a.W)),
                 s, L, chunk)

StartRead(S, W) ==
    [S |-> S, W |-> W, res |-> "ok", bytes |-> <<>>, tags |-> <<>>, live |-> FALSE]

\* OverrideReader.Read for one byte through reader r (0: rand.Reader, which
\* yields the next live byte b; t: session t's ovRand).  Yields the heap, the
\* byte and the reader that supplied it (0: live, t: t's recorded prefix).
\* io.TeeReader(rnd, randBuf) of session r after rnd yielded x: the byte is
\* written to randBuf.
TeeRand(r, x) ==
    IF x.S[r].rMode = "tee" /\ x.S[r].att
    THEN [x EXCEPT !.S = [x.S EXCEPT ![r].randBuffer = Append(@, x.byte)]]
    ELSE x

RECURSIVE RandRead(_, _, _)
RandRead(S, r, b) ==
    IF r = 0 THEN [S |-> S, byte |-> b, tag |-> 0]
    ELSE IF S[r].rMode = "multi" /\ S[r].rPre # <<>>
    THEN [S |-> [S EXCEPT ![r].rPre = Tail(@)], byte |-> Head(S[r].rPre), tag |-> r]
    ELSE TeeRand(r, RandRead(S, S[r].rnd, b))

\* io.ReadFull(cfg.Rand, n bytes): lv are the bytes rand.Reader yields next.
\* The entropy drawn so far, after one more byte x.
Drawn(a, x) ==
    [S |-> x.S, bytes |-> Append(a.bytes, x.byte), tags |-> Append(a.tags, x.tag),
     lv |-> IF x.tag = 0 THEN Tail(a.lv) ELSE a.lv]

RECURSIVE Draw(_, _, _)
Draw(a, r, n) ==
    IF n = 0 THEN a
    ELSE Draw(Drawn(a, RandRead(a.S, r, Head(a.lv))), r, n - 1)

StartDraw(S, lv) == [S |-> S, bytes |-> <<>>, tags |-> <<>>, lv |-> lv]

\* OverrideConn.Write of n records: to the OverrideWriter (ioutil.Discard) when
\* it is set, else to the transport.  Yields how many reached the transport.
ConnWrite(c, n) == IF c.wMode = "discard" THEN 0 ELSE n

\* ------------------------------------------------------ the engine's run
\* What a call of the engine's Handshake yields: the heap after its I/O, the
\* result ("ok" or "err"), the tls.Conn after it, the transport bytes and the
\* entropy it was given with where each came from, whether a Read reached the
\* live transport, and the records it wrote.
RunResult(S, res, e, rd, rdTag, rn, rnTag, liveRd, wr) ==
    [S |-> S, res |-> res, eng |-> e, rd |-> rd, rdTag |-> rdTag,
     rn |-> rn, rnTag |-> rnTag, liveRd |-> liveRd, wr |-> wr]

\* A failed run: handshakeErr is set, the counters stand where the records
\* processed so far left them, no key material exists.
Failed(in, out) ==
    [done |-> FALSE, err |-> TRUE, inSeq |-> in, outSeq |-> out,
     tr |-> <<>>, ent |-> <<>>]

\* What the peer does during one handshake: the bytes w1 of its first flight,
\* then its Finished w2 ("good": the check value that verifies, "bad": another
\* byte, "none": nothing); then it ends the connection.
Peers(first, fins) ==
    {[w1 |-> w, w2 |-> f, wend |-> "eof"] : w \in first, f \in fins}

Established(rd, ent) ==
    [done |-> TRUE, err |-> FALSE, inSeq |-> 1, outSeq |-> 1, tr |-> rd, ent |-> ent]

\* The Finished the peer sends, good being the check value that verifies.
PeerFinished(P, good) ==
    IF P.w2 = "good" THEN <<good>> ELSE IF P.w2 = "bad" THEN <<3 - good>> ELSE <<>>

\* The engine has read the hello h, drawn d and read the Finished f.
VerifyFinished(h, d, f) ==
    IF f.res = "eof"
    THEN RunResult(f.S, "err", Failed(1, 1), h.bytes \o f.bytes, h.tags \o f.tags,
                   d.bytes, d.tags, h.live \/ f.live, 1)
    ELSE IF f.bytes # <<Mac(h.bytes, d.bytes)>>
    THEN RunResult(f.S, "err", Failed(1, 2), h.bytes \o f.bytes, h.tags \o f.tags,
                   d.bytes, d.tags, h.live \/ f.live, 2)
    ELSE RunResult(f.S, "ok", Established(h.bytes \o f.bytes, d.bytes),
                   h.bytes \o f.bytes, h.tags \o f.tags,
                   d.bytes, d.tags, h.live \/ f.live, 2)

\* The engine has read the hello h and drawn d: it reads the peer's Finished.
ReadFinished(h, d, s, chunk, P) ==
    VerifyFinished(h, d,
        ReadRec(StartRead(d.S, [wire |-> PeerFinished(P, Mac(h.bytes, d.bytes)),
                                wend |-> P.wend]),
                s, 1, chunk))

\* The engine has read the hello h (or failed to): it draws its entropy.
ServerHello(h, s, r, chunk, P, lv) ==
    IF h.res = "eof"
    THEN RunResult(h.S, "err", Failed(0, 0), h.bytes, h.tags, <<>>, <<>>, h.live, 0)
    ELSE ReadFinished(h, Draw(StartDraw(h.S, lv), r, RandLen), s, chunk, P)

\* (*tls.Conn).Handshake, server side, on session s's engine, with cfg.Rand = r:
\*   read the hello record (in.seq 1);
\*   draw the entropy from cfg.Rand; write the server's flight (out.seq 1);
\*   read the peer's ChangeCipherSpec and Finished (in.seq reset, then 1); a
\*   Finished that does not verify is answered by an alert (out.seq 2);
\*   write ChangeCipherSpec and Finished (out.seq reset, then 1).
EngineHandshake(S, s, r, chunk, P, lv) ==
    IF S[s].eng.err
    THEN RunResult(S, "err", S[s].eng, <<>>, <<>>, <<>>, <<>>, FALSE, 0)
    ELSE IF S[s].eng.done
    THEN RunResult(S, "ok", S[s].eng, <<>>, <<>>, <<>>, <<>>, FALSE, 0)
    ELSE ServerHello(ReadRec(StartRead(S, [wire |-> P.w1, wend |-> P.wend]),
                             s, HelloLen, chunk),
                     s, r, chunk, P, lv)

\* ------------------------------------------------------- sequence accessor
\* A setSeq that writes nothing: the counters stay as the handshake left them.
setSeqNothing(e, in, out) == e

\* setSeq: the two counters of the tls.Conn overwritten by reflection.
setSeq(e, in, out) == [e EXCEPT !.inSeq = in, !.outSeq = out]

\* A getSeq that reads the field "out" for both counters.
getSeqOutTwice(e) == <<e.outSeq, e.outSeq>>

\* getSeq: the two counters of the tls.Conn read by reflection.
getSeq(e) == <<e.inSeq, e.outSeq>>

\* Conn.State.
State(c) ==
    MkState(c.connBuffer, c.randBuffer, getSeq(c.eng)[1], getSeq(c.eng)[2])

\* ---------------------------------------------------------------- the state
VARIABLES
    cfgRand,   \* cfg.Rand: 0 is nil (rand.Reader), s is session s's ovRand
    sess,      \* the sessions
    panicked,  \* the program has stopped on a panic
    rpos,      \* how far into its stream rand.Reader is
    compat     \* the tls.Conn of this build has the fields in.seq and out.seq
               \* that setSeq and getSeq look up by name

vars == <<cfgRand, sess, panicked, rpos, compat>>

\* rand.Reader's stream, repeated: successive draws of RandLen bytes differ.
pat == [i \in 1 .. RandLen + 2 |-> IF i = 1 THEN 1 ELSE 2]

\* The hello the peer of a capture session sends.
PeerHello == [i \in 1 .. HelloLen |-> ((i - 1) % 2) + 1]

\* The bytes of q whose tag is x.
RECURSIVE Tagged(_, _, _)
Tagged(q, tags, x) ==
    IF q = <<>> THEN <<>>
    ELSE (IF Head(tags) = x THEN <<Head(q)>> ELSE <<>>)
           \o Tagged(Tail(q), Tail(tags), x)

\* What session s's engine was given during a run with result r.
RunOf(r, s) ==
    [rdTag |-> r.rdTag, rdPre |-> Tagged(r.rd, r.rdTag, 1),
     rnTag |-> r.rnTag, rnPre |-> Tagged(r.rn, r.rnTag, s),
     liveRd |-> r.liveRd]

Init ==
    /\ cfgRand = 0
    /\ sess = [s \in Sess |-> NoSess]
    /\ panicked = FALSE
    /\ rpos = 0
    /\ compat \in BOOLEAN

\* The next n bytes of rand.Reader.
LiveBytes(n) == [i \in 1 .. n |-> pat[((rpos + i - 1) % Len(pat)) + 1]]

\* rand.Reader after a run that drew the entropy tagged tags.
Advance(tags) ==
    (rpos + Cardinality({i \in 1 .. Len(tags) : tags[i] = 0})) % Len(pat)

\* The next constructor call fills slot s.
Free(s) == /\ ~panicked
           /\ sess[s].kind = "none"
           /\ \A t \in Sess : t < s => sess[t].kind # "none"

\* The session is a capture session whose handshake has completed and that has
\* exchanged no application record since.
AtCompletion(c) ==
    c.kind = "capture" /\ c.handshaked /\ c.appIn = 0 /\ c.appOut = 0

\* -------------------------------------------------------- clientInitialize
\* ovRand := &OverrideReader{OverrideReader: io.TeeReader(rnd, randBuf), Reader: rnd}
InitOverrideRand(c, rnd) == [c EXCEPT !.rMode = "tee", !.rnd = rnd]

\* ovConn := &OverrideConn{Conn: conn, OverrideReader: io.TeeReader(conn, connBuf)}
InitOverrideConn(c) == [c EXCEPT !.cMode = "tee", !.wMode = "nil"]

\* &Conn{overrideConn, overrideRand, connBuffer, randBuffer, Conn: tls.Server(ovConn, cfg)}
InitConn(c) ==
    [c EXCEPT !.kind = "capture", !.handshaked = FALSE, !.hasOv = TRUE,
              !.connBuffer = <<>>, !.randBuffer = <<>>, !.att = TRUE,
              !.eng = NewEngine]

\* cfg.Rand = ovRand: the caller's configuration now names this session's wrapper.
SetCfgRand(s) == s

clientInitialize(s) ==
    /\ Free(s)
    /\ sess' = [sess EXCEPT
                  ![s] = InitConn(InitOverrideConn(InitOverrideRand(NoSess, cfgRand)))]
    /\ cfgRand' = SetCfgRand(s)
    /\ UNCHANGED <<panicked, rpos, compat>>

\* ------------------------------------------------------------ clientResume
\* ovRand := &OverrideReader{OverrideReader: io.MultiReader(bytes.NewBuffer(state.rand), rnd), Reader: rnd}
ResumeOverrideRand(c, rnd, state) ==
    [c EXCEPT !.rMode = "multi", !.rnd = rnd, !.rPre = state.rand]

\* An ovConn built without its OverrideReader: Read goes to the transport.
ResumeOverrideConnNoReader(c, state) == [c EXCEPT !.cMode = "nil"]

\* ovConn := &OverrideConn{Conn: conn, OverrideReader: io.MultiReader(bytes.NewBuffer(state.conn), conn), ...}
ResumeOverrideConn(c, state) ==
    [c EXCEPT !.cMode = "multi", !.cPre = state.conn]

\* An ovConn built without its OverrideWriter: Write goes to the transport.
ResumeOverrideWriterNone(c) == [c EXCEPT !.wMode = "nil"]

\* ... OverrideWriter: ioutil.Discard}
ResumeOverrideWriter(c) == [c EXCEPT !.wMode = "discard"]

\* After the handshake: ovRand.OverrideReader = nil; ovConn.OverrideReader = nil;
\* ovConn.OverrideWriter = nil.
ResumeDetach(c) ==
    [c EXCEPT !.rMode = "nil", !.rPre = <<>>, !.cMode = "nil", !.cPre = <<>>,
              !.wMode = "nil"]

\* An injection with the two counters exchanged.
InjectSeqSwapped(c, state) ==
    [c EXCEPT !.eng = setSeq(c.eng, state.outSeq, state.inSeq)]

\* setSeq(cli, state.inSeq, state.outSeq)
InjectSeq(c, state) == [c EXCEPT !.eng = setSeq(c.eng, state.inSeq, state.outSeq)]

\* A resumed Conn given new, empty buffers.
ResumedConnEmpty(c, state) ==
    [c EXCEPT !.kind = "resume", !.handshaked = TRUE, !.hasOv = FALSE,
              !.connBuffer = <<>>, !.randBuffer = <<>>, !.att = FALSE]

\* &Conn{handshaked: true, connBuffer: bytes.NewBuffer(state.conn),
\*       randBuffer: bytes.NewBuffer(state.rand), Conn: cli}
ResumedConn(c, state) ==
    [c EXCEPT !.kind = "resume", !.handshaked = TRUE, !.hasOv = FALSE,
              !.connBuffer = state.conn, !.randBuffer = state.rand,
              !.att = FALSE]

\* A failure path reached after the counters were injected.
ResumeFailedInjected(c) ==
    [c EXCEPT !.kind = "failed", !.cPre = <<>>,
              !.eng = setSeq(c.eng, c.st.inSeq, c.st.outSeq)]

\* return nil, fmt.Errorf("handshake er: %v", err): no Conn; ovRand stays as the
\* handshake left it, still named by cfg.Rand.
ResumeFailed(c) == [c EXCEPT !.kind = "failed", !.cPre = <<>>]

\* What the live transport of a resuming constructor may hold: when the State's
\* transcript is whole, nothing the handshake needs; when it is short, nothing,
\* or the rest of a hello and then a Finished or none.
ResumePeers(state) ==
    IF Len(state.conn) >= HsLen
    THEN Peers({<<>>}, {"none"})
    ELSE Peers({<<>>}, {"none"})
           \cup Peers({Const(HelloLen - Min(HelloLen, Len(state.conn)), b) : b \in TByte},
                      {"good", "bad", "none"})

\* The slot of the session under construction when tls.Server is called.
ResumeStart(s, state, from, at, cut) ==
    [sess EXCEPT ![s] =
        [ResumeOverrideWriter(ResumeOverrideConn(
             ResumeOverrideRand(NoSess, cfgRand, state), state))
         EXCEPT !.st = state, !.stFrom = from, !.stAt = at, !.cut = cut]]

\* The slot after cli.Handshake() returned r.
ResumeRan(s, r) ==
    [r.S[s] EXCEPT !.eng = r.eng, !.liveOut = ConnWrite(r.S[s], r.wr),
                   !.run = RunOf(r, s)]

\* The Conn returned, with the counters it was given noted.
ResumeDone(c) == [c EXCEPT !.base = <<c.eng.inSeq, c.eng.outSeq>>]

\* if err := cli.Handshake(); err != nil { return nil, ... }; detach; setSeq;
\* return &Conn{...}, nil
ResumeReturn(s, state, r) ==
    /\ rpos' = Advance(r.rnTag)
    /\ sess' = [r.S EXCEPT ![s] =
                  IF r.res = "err"
                  THEN ResumeFailed(ResumeRan(s, r))
                  ELSE ResumeDone(ResumedConn(
                           InjectSeq(ResumeDetach(ResumeRan(s, r)), state), state))]

clientResume(s, state, from, at, cut) ==
    /\ Free(s)
    /\ cfgRand' = SetCfgRand(s)
    /\ \E chunk \in 1 .. HelloLen, P \in ResumePeers(state) :
         ResumeReturn(s, state,
             EngineHandshake(ResumeStart(s, state, from, at, cut), s,
                             SetCfgRand(s), chunk, P, LiveBytes(RandLen)))
    /\ UNCHANGED <<panicked, compat>>

\* Server(conn, cfg, state) / Client(conn, cfg, state): without a State a
\* capture session; with one, a resumed session.  The States a caller can pass
\* are what State() returns on a session t it holds, whole or with the
\* transcript cut short by n bytes (a State that lost its tail on the way).
\* The State c.State() returns, without the last n bytes of its transcript.
CutState(st, n) == [st EXCEPT !.conn = Take(st.conn, Len(st.conn) - n)]

\* Server with a State: the States in use are those State() returns, which it
\* does on a build where getSeq finds the counters.
Server(s) ==
    \/ clientInitialize(s)
    \/ \E t \in Sess :
         /\ compat
         /\ sess[t].kind \in {"capture", "resume"}
         /\ \E n \in 0 .. Len(State(sess[t]).conn) :
              clientResume(s, CutState(State(sess[t]), n), t,
                           AtCompletion(sess[t]), n)

\* --------------------------------------------------------------- Handshake
\* A Handshake without its test of c.handshaked.
HandshakedNever(c) == FALSE

\* if c.handshaked { return nil }
Handshaked(c) == c.handshaked

\* A failure path that keeps the buffers.
DiscardBuffersKept(c) == c

\* c.connBuffer = &bytes.Buffer{}; c.randBuffer = &bytes.Buffer{}: the Conn gets
\* new, empty buffers; the Tee readers keep writing to the old ones.
DiscardBuffers(c) ==
    [c EXCEPT !.connBuffer = <<>>, !.randBuffer = <<>>, !.att = FALSE]

\* c.overrideRand.OverrideReader = nil; c.overrideConn.OverrideReader = nil
Detach(c) == [c EXCEPT !.rMode = "nil", !.cMode = "nil"]

\* What the peer of a capture session may do: send its hello or a part of it,
\* then a Finished that verifies or one that does not, or nothing.
CapturePeers ==
    Peers({PeerHello}, {"good", "bad", "none"})
      \cup Peers({Take(PeerHello, j) : j \in 0 .. HelloLen - 1}, {"none"})

\* The Conn after c.Conn.Handshake() returned r.
HandshakeRan(s, r) ==
    [r.S[s] EXCEPT !.eng = r.eng, !.liveOut = @ + ConnWrite(r.S[s], r.wr),
                   !.rehs = IF sess[s].handshaked THEN 1 ELSE @]

\* c.handshaked = true, then the two wrappers are detached; with overrideRand
\* nil the first assignment is a nil dereference.
HandshakeDone(c) ==
    IF c.hasOv
    THEN Detach([c EXCEPT !.base = IF c.handshaked THEN @
                                   ELSE <<c.eng.inSeq, c.eng.outSeq>>,
                          !.handshaked = TRUE, !.hsRet = "ok"])
    ELSE [c EXCEPT !.handshaked = TRUE, !.hsRet = "panic"]

\* if err := c.Conn.Handshake(); err != nil { new buffers; return err }; ...
HandshakeReturn(s, r) ==
    /\ rpos' = Advance(r.rnTag)
    /\ sess' = [r.S EXCEPT ![s] =
                  IF r.res = "err"
                  THEN [DiscardBuffers(HandshakeRan(s, r)) EXCEPT !.hsRet = "err"]
                  ELSE HandshakeDone(HandshakeRan(s, r))]
    /\ panicked' = (r.res = "ok" /\ ~r.S[s].hasOv)

Handshake(s) ==
    /\ ~panicked
    /\ sess[s].kind \in {"capture", "resume"}
    /\ UNCHANGED <<cfgRand, compat>>
    /\ IF Handshaked(sess[s])
       THEN /\ sess' = [sess EXCEPT ![s].hsRet = "early"]
            /\ UNCHANGED <<panicked, rpos>>
       ELSE \E P \in CapturePeers :
              HandshakeReturn(s, EngineHandshake(sess, s, cfgRand, HelloLen, P,
                                                 LiveBytes(RandLen)))

\* ------------------------------------------------------------------ State
\* c.State() on a build whose tls.Conn has no field in.seq: FieldByName finds
\* nothing and the conversion to [8]byte in getSeq panics.  (On the other
\* builds State() changes nothing: it is the operator State above.)
StateIncompatible(s) ==
    /\ ~panicked
    /\ ~compat
    /\ sess[s].kind = "capture"
    /\ panicked' = TRUE
    /\ UNCHANGED <<cfgRand, sess, rpos, compat>>

\* ------------------------------------------------ application records
\* Read and Write are the embedded tls.Conn's: they go through ovConn.  The
\* package's contract forwards them once the handshake is complete.
RECURSIVE AppCount(_, _)
AppCount(S, T) ==
    IF T = {} THEN 0
    ELSE LET t == CHOOSE x \in T : TRUE
         IN S[t].appIn + S[t].appOut + AppCount(S, T \ {t})

\* One record read from the peer: in.seq advances.
AppRead(s) ==
    /\ ~panicked
    /\ sess[s].handshaked
    /\ AppCount(sess, Sess) < MaxApp
    /\ sess' = [ReadRec(StartRead(sess, [wire |-> <<1>>, wend |-> "eof"]), s, 1, 1).S
                  EXCEPT ![s].eng.inSeq = @ + 1, ![s].appIn = @ + 1]
    /\ UNCHANGED <<cfgRand, panicked, rpos, compat>>

\* One record written to the peer: out.seq advances.
AppWrite(s) ==
    /\ ~panicked
    /\ sess[s].handshaked
    /\ AppCount(sess, Sess) < MaxApp
    /\ sess' = [sess EXCEPT ![s].eng.outSeq = @ + 1, ![s].appOut = @ + 1,
                            ![s].liveOut = @ + ConnWrite(sess[s], 1)]
    /\ UNCHANGED <<cfgRand, panicked, rpos, compat>>

Next ==
    \E s \in Sess :
        \/ Server(s)
        \/ Handshake(s)
        \/ StateIncompatible(s)
        \/ AppRead(s)
        \/ AppWrite(s)

Spec == Init /\ [][Next]_vars

\* ------------------------------------------------------------- properties
\* The sessions a resuming constructor call has produced (a Conn, or nil and an
\* error).
Resumes == {s \in Sess : sess[s].kind \in {"resume", "failed"}}

\* The counters State() reports on session s.
Reported(s) == <<State(sess[s]).inSeq, State(sess[s]).outSeq>>

\* q's entries equal to x all come before its other entries.
FirstAll(q, x) == \A i, j \in 1 .. Len(q) : (i < j /\ q[j] = x) => q[i] = x

\* p is q or a beginning of q.
IsPrefix(p, q) == Len(p) <= Len(q) /\ p = Take(q, Len(p))

\* C1: a State taken from a capture session at the completion of its handshake,
\* passed whole to Server/Client, yields a resumed session (not an error) whose
\* key material and counters are those the capture session had at completion.
RoundTrip ==
    \A s \in Resumes :
        (sess[s].stAt /\ sess[s].cut = 0) =>
            /\ sess[s].kind = "resume"
            /\ KeyOf(sess[s].eng) = KeyOf(sess[sess[s].stFrom].eng)
            /\ sess[s].base = sess[sess[s].stFrom].base

\* C2: on a handshaked capture session, State() holds exactly the transport
\* bytes the engine read and exactly the entropy it drew during its handshake.
ExactCapture ==
    \A s \in Sess :
        (sess[s].kind = "capture" /\ sess[s].handshaked) =>
            /\ State(sess[s]).conn = sess[s].eng.tr
            /\ State(sess[s]).rand = sess[s].eng.ent

\* C3: during a resume handshake the engine is given bytes of the State's
\* transcript, in order, before any live transport byte, and no Read reaches
\* the live transport before the whole transcript was delivered; likewise the
\* State's entropy comes first, in order and whole, before any byte of the
\* randomness source behind it.
ReplayOrdering ==
    \A s \in Resumes :
        /\ FirstAll(sess[s].run.rdTag, 1)
        /\ IsPrefix(sess[s].run.rdPre, sess[s].st.conn)
        /\ sess[s].run.liveRd => sess[s].run.rdPre = sess[s].st.conn
        /\ FirstAll(sess[s].run.rnTag, s)
        /\ IsPrefix(sess[s].run.rnPre, sess[s].st.rand)
        /\ (\E i \in 1 .. Len(sess[s].run.rnTag) : sess[s].run.rnTag[i] # s)
              => sess[s].run.rnPre = sess[s].st.rand

\* A resume in which the engine was given recorded transcript, then live
\* transport bytes, and recorded entropy.
ReplayOrderingWitness ==
    \E s \in Sess :
        /\ sess[s].kind = "resume"
        /\ sess[s].run.liveRd
        /\ \E i \in 1 .. Len(sess[s].run.rdTag) : sess[s].run.rdTag[i] = 0
        /\ sess[s].run.rdPre # <<>>
        /\ sess[s].run.rnPre # <<>>

\* C4: nothing the engine writes during a resume handshake reaches the live
\* transport, whether the resume fails or succeeds; after a successful resume
\* the records written reach it.
NoReplayWrites ==
    \A s \in Sess :
        /\ sess[s].kind = "failed" => sess[s].liveOut = 0
        /\ sess[s].kind = "resume" => sess[s].liveOut = sess[s].appOut

\* A failed resume whose engine had written its flight, and a resumed session
\* that has since written a record.
NoReplayWritesWitness ==
    \E s, t \in Sess :
        /\ sess[s].kind = "failed" /\ sess[s].eng.outSeq > 0
        /\ sess[t].kind = "resume" /\ sess[t].appOut > 0 /\ sess[t].liveOut > 0

\* C5: when a resume from State S has succeeded, the engine's counters are
\* S.inSeq and S.outSeq, whatever the replayed handshake had left in them.
CounterInjection ==
    \A s \in Sess :
        sess[s].kind = "resume" =>
            sess[s].base = <<sess[s].st.inSeq, sess[s].st.outSeq>>

\* A resumed session whose State carried counters other than the ones a
\* handshake run ends with.
CounterInjectionWitness ==
    \E s \in Sess :
        /\ sess[s].kind = "resume"
        /\ <<sess[s].st.inSeq, sess[s].st.outSeq>> # <<1, 1>>
        /\ sess[s].st.inSeq # sess[s].st.outSeq

\* C6: a Handshake call on a session that is handshaked returns at once with
\* success: the engine's handshake is not called, the wrappers are not touched,
\* and the buffers, the counters and everything else stay as they were.
HandshakeIdempotent ==
    [][\A s \in Sess :
          (sess[s].handshaked /\ Handshake(s)) =>
              /\ sess' = [sess EXCEPT ![s].hsRet = "early"]
              /\ UNCHANGED <<cfgRand, panicked, rpos>>]_vars

\* A capture session after its handshake and a resumed session, each with a
\* later Handshake call that has returned.
HandshakeIdempotentWitness ==
    \E s, t \in Sess :
        /\ sess[s].kind = "capture" /\ sess[s].handshaked /\ sess[s].hsRet = "early"
        /\ sess[t].kind = "resume" /\ sess[t].hsRet = "early"

\* C7: after Handshake has returned a failure on a capture session, State()
\* holds an empty transcript and empty entropy, the failure is the engine's, and
\* the session is not handshaked.
FailedCaptureEmpty ==
    \A s \in Sess :
        (sess[s].kind = "capture" /\ sess[s].hsRet = "err") =>
            /\ State(sess[s]).conn = <<>>
            /\ State(sess[s]).rand = <<>>
            /\ sess[s].eng.err
            /\ ~sess[s].handshaked

\* A capture session whose handshake failed after the engine had read the hello
\* and drawn its entropy.
FailedCaptureEmptyWitness ==
    \E s \in Sess :
        /\ sess[s].kind = "capture" /\ sess[s].hsRet = "err"
        /\ sess[s].eng.inSeq > 0 /\ sess[s].eng.outSeq > 0

\* C8: on a session that has had no successful handshake, State() is entirely
\* empty: empty transcript, empty entropy, both counters zero.
EmptyBeforeHandshake ==
    \A s \in Sess :
        (sess[s].kind = "capture" /\ ~sess[s].handshaked) =>
            State(sess[s]) = ZeroState

TruncatedFails ==
    \A s \in Resumes : sess[s].cut > 0 => sess[s].kind = "failed"

\* C11: once Handshake has returned on a capture session, or a resuming
\* constructor has returned, with success or with an error, the session's
\* wrappers are detached: ovRand.OverrideReader and ovConn.OverrideReader are
\* nil, so that no later read is copied to a buffer or served from a prefix.
WrappersDetached ==
    \A s \in Sess :
        (\/ sess[s].kind = "capture" /\ sess[s].hsRet # "none"
         \/ sess[s].kind \in {"resume", "failed"}) =>
            sess[s].rMode = "nil" /\ sess[s].cMode = "nil"

\* C12: sessions built from one cfg share nothing: whatever the order of the
\* constructor and Handshake calls, a capture session's buffers hold the bytes
\* its own handshake gave its engine and no others (nothing before it).
SessionsIndependent ==
    \A s \in Sess :
        sess[s].kind = "capture" =>
            /\ sess[s].connBuffer \in {<<>>, sess[s].eng.tr}
            /\ sess[s].randBuffer \in {<<>>, sess[s].eng.ent}

\* The counters of session s's engine.
Counters(s) == <<sess[s].eng.inSeq, sess[s].eng.outSeq>>

\* C13: two sessions resumed from the same State are independent: each got the
\* State's counters, each one's counters have advanced by its own records only,
\* and the transcript and the entropy they share with the State are unchanged.
TwoResumesIndependent ==
    \A s, t \in Sess :
        (/\ s # t
         /\ sess[s].kind = "resume" /\ sess[t].kind = "resume"
         /\ sess[s].stFrom = sess[t].stFrom /\ sess[s].st = sess[t].st) =>
            /\ sess[s].base = <<sess[s].st.inSeq, sess[s].st.outSeq>>
            /\ Counters(s) = <<sess[s].st.inSeq + sess[s].appIn,
                               sess[s].st.outSeq + sess[s].appOut>>
            /\ sess[s].connBuffer = sess[s].st.conn
            /\ sess[s].randBuffer = sess[s].st.rand

\* Two sessions resumed from one State with a transcript, of which one has
\* exchanged a record since and the other has not.
TwoResumesIndependentWitness ==
    \E s, t \in Sess :
        /\ s # t
        /\ sess[s].kind = "resume" /\ sess[t].kind = "resume"
        /\ sess[s].stFrom = sess[t].stFrom /\ sess[s].st = sess[t].st
        /\ sess[s].st.conn # <<>>
        /\ sess[s].appIn + sess[s].appOut > 0
        /\ sess[t].appIn + sess[t].appOut = 0

\* C14: a resume in which a read was served by the live transport, or a draw by
\* the randomness source behind the recorded entropy, does not return as a
\* success: the session's resume used its recorded prefixes only.
FallbackSurfaced ==
    \A s \in Sess :
        sess[s].kind = "resume" =>
            /\ ~sess[s].run.liveRd
            /\ \A i \in 1 .. Len(sess[s].run.rnTag) : sess[s].run.rnTag[i] = s

\* The counters a failed handshake run leaves in the engine.
FailedRunCounters == {<<0, 0>>, <<1, 1>>, <<1, 2>>}

\* C15: when the engine's handshake fails in a resuming constructor, the
\* constructor returns the error and no session, and the State's counters are
\* not written to the engine; it returns an error in no other case.
ResumeFailureClean ==
    \A s \in Resumes :
        /\ sess[s].eng.err =>
              /\ sess[s].kind = "failed"
              /\ ~sess[s].handshaked
              /\ Counters(s) \in FailedRunCounters
        /\ sess[s].kind = "failed" => sess[s].eng.err

\* A failed resume whose engine had processed records and whose State carried
\* counters no failed run ends with.
ResumeFailureCleanWitness ==
    \E s \in Sess :
        /\ sess[s].kind = "failed"
        /\ sess[s].eng.inSeq > 0
        /\ <<sess[s].st.inSeq, sess[s].st.outSeq>> \notin FailedRunCounters

\* C16: on a build whose engine does not give access to the two counters, the
\* constructor fails: no session is returned, and the program does not first
\* meet the incompatibility later, at a State() call.
FailsAtConstruction ==
    ~compat => (~panicked /\ \A s \in Sess : sess[s].kind = "none")

\* C17: the constructors leave the caller's cfg as it was: cfg.Rand names the
\* same source after a constructor has returned as before (nil, rand.Reader).
ConfigUnchanged == [][cfgRand' = cfgRand]_vars

\* C18: recorded entropy does not leak into later randomness: what a resume
\* attempt that failed left unread of its State's entropy (the State's entropy
\* without the bytes its own handshake drew) is served to no later draw, so it
\* stays unread.  (A resume that succeeded has no prefix left: ResumeDetach.)
EntropyNeverLeaks ==
    \A t \in Sess :
        sess[t].kind = "failed" =>
            sess[t].rPre = Drop(sess[t].st.rand, Len(sess[t].run.rnPre))

\* C19: the snapshot of a resumed session is the snapshot it came from: State()
\* on a session resumed from S, before any application record, is S in all four
\* fields.
SnapshotOfResumed ==
    \A s \in Sess :
        (sess[s].kind = "resume" /\ sess[s].appIn = 0 /\ sess[s].appOut = 0) =>
            State(sess[s]) = sess[s].st

\* A session resumed from the snapshot of a resumed session, the snapshot
\* holding a transcript, entropy and counters that application records moved.
SnapshotOfResumedWitness ==
    \E s \in Sess :
        /\ sess[s].kind = "resume" /\ sess[s].appIn = 0 /\ sess[s].appOut = 0
        /\ sess[s].stFrom # 0 /\ sess[sess[s].stFrom].kind = "resume"
        /\ Len(sess[s].st.conn) = HsLen /\ sess[s].st.rand # <<>>
        /\ sess[s].st.inSeq + sess[s].st.outSeq > 2

====
